---- MODULE Spec2Model ----
(***************************************************************************)
(* Model of nonlinear_solvers/solvers.py: newton_raphson, bisection and    *)
(* solve.  One behaviour is one call made by a caller: Init draws the      *)
(* operation called and its arguments, the actions are the steps of the    *)
(* called function (one loop iteration per step) up to its return or       *)
(* raise.                                                                  *)
(*                                                                         *)
(* Numbers are exact rationals [n, d] in lowest terms with d > 0.  The     *)
(* function handles f and df are opaque callables in the program; here     *)
(* they range over polynomials  a*x^2 + b*x + c  with integer              *)
(* coefficients, written <<a, b, c>>, and are evaluated exactly.           *)
(***************************************************************************)
EXTENDS Integers, Sequences, FiniteSets, TLC

\* ------------------------------------------------------------ bounds
\* Largest max_its handed to newton_raphson.
MaxItsN == 2
\* Largest max_its handed to bisection.
MaxItsB == 3

\* ------------------------------------------------------- rational numbers
Abs(i) == IF i < 0 THEN -i ELSE i

RECURSIVE GCD(_, _)
GCD(a, b) == IF b = 0 THEN a ELSE GCD(b, a % b)

\* The rational num/den (den # 0) in lowest terms with a positive denominator.
Rat(num, den) ==
    LET g == GCD(Abs(num), Abs(den))
        s == IF den < 0 THEN -1 ELSE 1
    IN  [n |-> (s * num) \div g, d |-> (s * den) \div g]

Zero == Rat(0, 1)

RAdd(p, q) == Rat(p.n * q.d + q.n * p.d, p.d * q.d)
RSub(p, q) == Rat(p.n * q.d - q.n * p.d, p.d * q.d)
\* p / q for q # 0
RDiv(p, q) == Rat(p.n * q.d, p.d * q.n)
RHalf(p) == Rat(p.n, 2 * p.d)
RAbs(p) == [n |-> Abs(p.n), d |-> p.d]
RLt(p, q) == p.n * q.d < q.n * p.d

\* ------------------------------------------------------ function handles
\* h(x) for the handle h = <<a, b, c>>:  a*x^2 + b*x + c.
Apply(h, x) ==
    Rat(h[1] * x.n * x.n + h[2] * x.n * x.d + h[3] * x.d * x.d, x.d * x.d)

\* x^2 - 2, x - 2, x^2 - 3, x^2
FHandles == {<<1, 0, -2>>, <<0, 1, -2>>, <<1, 0, -3>>, <<1, 0, 0>>}
\* 2x, 1, x - 1, x
DfHandles == {<<0, 2, 0>>, <<0, 0, 1>>, <<0, 1, -1>>, <<0, 1, 0>>}
\* starting points and bracket ends
Points == {Rat(i, 1) : i \in -1..2}
\* tolerances
Tolerances == {Rat(1, 2), Rat(1, 8)}

\* ------------------------------------------------- the code's predicates
\* Mutant: the absolute value forgotten, f(x) < eps.
ConvergedNoAbs(fh, x, e) == RLt(Apply(fh, x), e)

\* abs(f(x)) < eps
Converged(fh, x, e) == RLt(RAbs(Apply(fh, x)), e)

\* Mutant: zero classed with the negative values, v <= 0.
SignNegOrZero(v) == ~RLt(Zero, v)

\* v < 0
SignNeg(v) == RLt(v, Zero)

\* Mutant: the entry test inverted, (f(x_0) < 0) != (f(x_1) < 0).
SameSignInverted(fh, a, b) == SignNeg(Apply(fh, a)) # SignNeg(Apply(fh, b))

\* (f(x_0) < 0) == (f(x_1) < 0)
SameSign(fh, a, b) == SignNeg(Apply(fh, a)) = SignNeg(Apply(fh, b))

\* Mutant: one iteration too many, range(max_its + 1).
MoreIterationsOffByOne(i, m) == i <= m

\* for _ in range(max_its): the loop has an i-th iteration (i done so far)
MoreIterations(i, m) == i < m

\* f(x_0) / df(x_0) raises ZeroDivisionError
DivisionFaults(den) == den.n = 0

\* x_0 -= f(x_0) / df(x_0)
NewtonUpdate(fh, dfh, x) == RSub(x, RDiv(Apply(fh, x), Apply(dfh, x)))

\* x_2 = (x_0 + x_1) / 2
Midpoint(a, b) == RHalf(RAdd(a, b))

\* Mutant: the wrong end moved, (f(x_2) < 0) != (f(x_0) < 0).
ReplacesX0Inverted(fh, mid, a) == SignNeg(Apply(fh, mid)) # SignNeg(Apply(fh, a))

\* elif (f(x_2) < 0) == (f(x_0) < 0): the midpoint replaces x_0
ReplacesX0(fh, mid, a) == SignNeg(Apply(fh, mid)) = SignNeg(Apply(fh, a))

\* ---------------------------------------------------- outcomes of a call
NoOutcome == [kind |-> "none", val |-> <<>>, who |-> "", attempts |-> 0, ends |-> <<>>]
Returned(v) == [kind |-> "return", val |-> <<v>>, who |-> "", attempts |-> 0, ends |-> <<>>]
\* raise ConvergenceError("<who> failed to converge after" + f"{max_its} attempts.")
ConvergenceError(w, m) ==
    [kind |-> "ConvergenceError", val |-> <<>>, who |-> w, attempts |-> m, ends |-> <<>>]
\* raise ValueError(f"starting points {x_0} and {x_1}", "have the same sign on f.")
ValueError(a, b) ==
    [kind |-> "ValueError", val |-> <<>>, who |-> "", attempts |-> 0, ends |-> <<a, b>>]
ZeroDivisionError ==
    [kind |-> "ZeroDivisionError", val |-> <<>>, who |-> "", attempts |-> 0, ends |-> <<>>]

\* ------------------------------------------- bisection as a function
\* The loop of bisection from its i-th iteration on, ends a and b.
RECURSIVE BisectionLoop(_, _, _, _, _, _)
BisectionLoop(fh, a, b, e, m, i) ==
    IF ~MoreIterations(i, m)
    THEN ConvergenceError("bisection", m)
    ELSE LET x_2 == Midpoint(a, b) IN
         IF Converged(fh, x_2, e) THEN Returned(x_2)
         ELSE IF ReplacesX0(fh, x_2, a) THEN BisectionLoop(fh, x_2, b, e, m, i + 1)
         ELSE BisectionLoop(fh, a, x_2, e, m, i + 1)

\* bisection(f, x_0, x_1, eps, max_its): what the call returns or raises.
BisectionResult(fh, a, b, e, m) ==
    IF SameSign(fh, a, b) THEN ValueError(a, b) ELSE BisectionLoop(fh, a, b, e, m, 0)

\* ------------------------------------------------------------- state
VARIABLES
    entry,          \* the operation the caller invoked
    f, df,          \* the caller's function handles
    x_0, x_1,       \* the caller's starting point / bracket ends
    eps,            \* the caller's tolerance
    max_its_n,      \* max_its of newton_raphson (max_its_n of solve)
    max_its_b,      \* max_its of bisection (max_its_b of solve)
    pc,             \* where the call is
    nx,             \* newton_raphson's local x_0
    nits,           \* iterations of newton_raphson's loop begun
    ncands,         \* the iterates newton_raphson tested for convergence
    bx0, bx1,       \* bisection's locals x_0 and x_1
    bits,           \* iterations of bisection's loop begun
    bcands,         \* the midpoints bisection tested for convergence
    newtonOutcome,  \* how newton_raphson ended
    bisectOutcome,  \* how bisection ended
    outcome,        \* how the caller's call ended
    nfN, ndfN,      \* evaluations of f and of df made by newton_raphson
    nfB,            \* evaluations of f made by bisection
    bisection_called, \* bisection has been invoked
    x1_used         \* the argument x_1 has been read

args == <<entry, f, df, x_0, x_1, eps, max_its_n, max_its_b>>
newtonVars == <<nx, nits, ncands, newtonOutcome, nfN, ndfN>>
bisectVars == <<bx0, bx1, bits, bcands, bisectOutcome, nfB>>
vars == <<args, pc, newtonVars, bisectVars, outcome, bisection_called, x1_used>>

Entries == {"newton_raphson", "bisection", "solve"}

Init ==
    /\ entry \in Entries
    /\ f \in FHandles
    /\ df \in DfHandles
    /\ x_0 \in Points
    /\ x_1 \in Points
    /\ eps \in Tolerances
    /\ max_its_n \in 1..MaxItsN
    /\ max_its_b \in 1..MaxItsB
    /\ pc = "call"
    /\ nx = x_0 /\ nits = 0 /\ ncands = <<>>
    /\ bx0 = x_0 /\ bx1 = x_1 /\ bits = 0 /\ bcands = <<>>
    /\ newtonOutcome = NoOutcome
    /\ bisectOutcome = NoOutcome
    /\ outcome = NoOutcome
    /\ nfN = 0 /\ ndfN = 0 /\ nfB = 0
    /\ bisection_called = FALSE
    /\ x1_used = FALSE

\* ----------------------------------------------------- newton_raphson
\* The caller calls newton_raphson(f, df, x_0, eps, max_its_n).
CallNewton ==
    /\ pc = "call" /\ entry = "newton_raphson"
    /\ pc' = "newton"
    /\ nx' = x_0
    /\ UNCHANGED <<args, nits, ncands, newtonOutcome, nfN, ndfN, bisectVars,
                   outcome, bisection_called, x1_used>>

\* Mutant: the division fault masked as a convergence failure.
NewtonDivZeroMasked ==
    /\ pc = "newton" /\ MoreIterations(nits, max_its_n)
    /\ DivisionFaults(Apply(df, nx))
    /\ nits' = nits + 1
    /\ nfN' = nfN + 1 /\ ndfN' = ndfN + 1
    /\ newtonOutcome' = ConvergenceError("Newton-Raphson", max_its_n)
    /\ pc' = "newton_ret"
    /\ UNCHANGED <<args, nx, ncands, bisectVars, outcome, bisection_called, x1_used>>

\* An iteration whose division f(x_0) / df(x_0) raises.
NewtonDivZero ==
    /\ pc = "newton" /\ MoreIterations(nits, max_its_n)
    /\ DivisionFaults(Apply(df, nx))
    /\ nits' = nits + 1
    /\ nfN' = nfN + 1 /\ ndfN' = ndfN + 1
    /\ newtonOutcome' = ZeroDivisionError
    /\ pc' = "newton_ret"
    /\ UNCHANGED <<args, nx, ncands, bisectVars, outcome, bisection_called, x1_used>>

\* An iteration that updates x_0 and returns it: abs(f(x_0)) < eps.
NewtonReturn ==
    /\ pc = "newton" /\ MoreIterations(nits, max_its_n)
    /\ ~DivisionFaults(Apply(df, nx))
    /\ LET x == NewtonUpdate(f, df, nx) IN
        /\ Converged(f, x, eps)
        /\ nx' = x
        /\ ncands' = Append(ncands, x)
        /\ newtonOutcome' = Returned(x)
    /\ nits' = nits + 1
    /\ nfN' = nfN + 2 /\ ndfN' = ndfN + 1
    /\ pc' = "newton_ret"
    /\ UNCHANGED <<args, bisectVars, outcome, bisection_called, x1_used>>

\* An iteration that updates x_0 and goes on.
NewtonContinue ==
    /\ pc = "newton" /\ MoreIterations(nits, max_its_n)
    /\ ~DivisionFaults(Apply(df, nx))
    /\ LET x == NewtonUpdate(f, df, nx) IN
        /\ ~Converged(f, x, eps)
        /\ nx' = x
        /\ ncands' = Append(ncands, x)
    /\ nits' = nits + 1
    /\ nfN' = nfN + 2 /\ ndfN' = ndfN + 1
    /\ UNCHANGED <<args, pc, newtonOutcome, bisectVars, outcome, bisection_called,
                   x1_used>>

\* The loop is over: raise ConvergenceError.
NewtonExhausted ==
    /\ pc = "newton" /\ ~MoreIterations(nits, max_its_n)
    /\ newtonOutcome' = ConvergenceError("Newton-Raphson", max_its_n)
    /\ pc' = "newton_ret"
    /\ UNCHANGED <<args, nx, nits, ncands, nfN, ndfN, bisectVars, outcome,
                   bisection_called, x1_used>>

\* newton_raphson's result or exception reaches the caller that called it.
NewtonLeave ==
    /\ pc = "newton_ret" /\ entry = "newton_raphson"
    /\ outcome' = newtonOutcome
    /\ pc' = "done"
    /\ UNCHANGED <<args, newtonVars, bisectVars, bisection_called, x1_used>>

\* ---------------------------------------------------------- bisection
\* The caller calls bisection(f, x_0, x_1, eps, max_its_b).
CallBisection ==
    /\ pc = "call" /\ entry = "bisection"
    /\ pc' = "bisection_entry"
    /\ bx0' = x_0 /\ bx1' = x_1
    /\ bisection_called' = TRUE
    /\ x1_used' = TRUE
    /\ UNCHANGED <<args, newtonVars, bits, bcands, bisectOutcome, nfB, outcome>>

\* The entry check fails: raise ValueError.
BisectionInvalid ==
    /\ pc = "bisection_entry"
    /\ SameSign(f, bx0, bx1)
    /\ nfB' = nfB + 2
    /\ bisectOutcome' = ValueError(bx0, bx1)
    /\ pc' = "bisection_ret"
    /\ UNCHANGED <<args, newtonVars, bx0, bx1, bits, bcands, outcome,
                   bisection_called, x1_used>>

\* The entry check passes: enter the loop.
BisectionEnter ==
    /\ pc = "bisection_entry"
    /\ ~SameSign(f, bx0, bx1)
    /\ nfB' = nfB + 2
    /\ pc' = "bisection_loop"
    /\ UNCHANGED <<args, newtonVars, bx0, bx1, bits, bcands, bisectOutcome, outcome,
                   bisection_called, x1_used>>

\* An iteration whose midpoint is returned: abs(f(x_2)) < eps.
BisectionReturn ==
    /\ pc = "bisection_loop" /\ MoreIterations(bits, max_its_b)
    /\ LET x_2 == Midpoint(bx0, bx1) IN
        /\ Converged(f, x_2, eps)
        /\ bcands' = Append(bcands, x_2)
        /\ bisectOutcome' = Returned(x_2)
    /\ bits' = bits + 1
    /\ nfB' = nfB + 1
    /\ pc' = "bisection_ret"
    /\ UNCHANGED <<args, newtonVars, bx0, bx1, outcome, bisection_called, x1_used>>

\* An iteration that moves x_0 to the midpoint.
BisectionNarrowLeft ==
    /\ pc = "bisection_loop" /\ MoreIterations(bits, max_its_b)
    /\ LET x_2 == Midpoint(bx0, bx1) IN
        /\ ~Converged(f, x_2, eps)
        /\ ReplacesX0(f, x_2, bx0)
        /\ bcands' = Append(bcands, x_2)
        /\ bx0' = x_2
    /\ bits' = bits + 1
    /\ nfB' = nfB + 3
    /\ UNCHANGED <<args, newtonVars, pc, bx1, bisectOutcome, outcome,
                   bisection_called, x1_used>>

\* An iteration that moves x_1 to the midpoint.
BisectionNarrowRight ==
    /\ pc = "bisection_loop" /\ MoreIterations(bits, max_its_b)
    /\ LET x_2 == Midpoint(bx0, bx1) IN
        /\ ~Converged(f, x_2, eps)
        /\ ~ReplacesX0(f, x_2, bx0)
        /\ bcands' = Append(bcands, x_2)
        /\ bx1' = x_2
    /\ bits' = bits + 1
    /\ nfB' = nfB + 3
    /\ UNCHANGED <<args, newtonVars, pc, bx0, bisectOutcome, outcome,
                   bisection_called, x1_used>>

\* The loop is over: raise ConvergenceError.
BisectionExhausted ==
    /\ pc = "bisection_loop" /\ ~MoreIterations(bits, max_its_b)
    /\ bisectOutcome' = ConvergenceError("bisection", max_its_b)
    /\ pc' = "bisection_ret"
    /\ UNCHANGED <<args, newtonVars, bx0, bx1, bits, bcands, nfB, outcome,
                   bisection_called, x1_used>>

\* bisection's result or exception reaches the caller, directly or through
\* solve's  return bisection(...).
BisectionLeave ==
    /\ pc = "bisection_ret"
    /\ outcome' = bisectOutcome
    /\ pc' = "done"
    /\ UNCHANGED <<args, newtonVars, bisectVars, bisection_called, x1_used>>

\* -------------------------------------------------------------- solve
\* Mutant: a bare except, every exception caught.
CaughtAny(kind) == TRUE

\* except ConvergenceError: the exception kinds the handler catches
Caught(kind) == kind = "ConvergenceError"

\* The caller calls solve(...), which calls newton_raphson(f, df, x_0, eps, max_its_n).
CallSolve ==
    /\ pc = "call" /\ entry = "solve"
    /\ pc' = "newton"
    /\ nx' = x_0
    /\ UNCHANGED <<args, nits, ncands, newtonOutcome, nfN, ndfN, bisectVars,
                   outcome, bisection_called, x1_used>>

\* Mutant: Newton's result dropped, bisection run all the same.
SolveRefinesNewton ==
    /\ pc = "newton_ret" /\ entry = "solve"
    /\ newtonOutcome.kind = "return"
    /\ pc' = "bisection_entry"
    /\ bx0' = x_0 /\ bx1' = x_1
    /\ bisection_called' = TRUE
    /\ x1_used' = TRUE
    /\ UNCHANGED <<args, newtonVars, bits, bcands, bisectOutcome, nfB, outcome>>

\* return newton_raphson(...)
SolveReturnNewton ==
    /\ pc = "newton_ret" /\ entry = "solve"
    /\ newtonOutcome.kind = "return"
    /\ outcome' = newtonOutcome
    /\ pc' = "done"
    /\ UNCHANGED <<args, newtonVars, bisectVars, bisection_called, x1_used>>

\* Mutant: bisection started from Newton's last iterate instead of the caller's x_0.
SolveFallbackFromIterate ==
    /\ pc = "newton_ret" /\ entry = "solve"
    /\ newtonOutcome.kind # "return" /\ Caught(newtonOutcome.kind)
    /\ pc' = "bisection_entry"
    /\ bx0' = nx /\ bx1' = x_1
    /\ bisection_called' = TRUE
    /\ x1_used' = TRUE
    /\ UNCHANGED <<args, newtonVars, bits, bcands, bisectOutcome, nfB, outcome>>

\* except ConvergenceError: return bisection(f, x_0, x_1, eps, max_its_b)
SolveFallback ==
    /\ pc = "newton_ret" /\ entry = "solve"
    /\ newtonOutcome.kind # "return" /\ Caught(newtonOutcome.kind)
    /\ pc' = "bisection_entry"
    /\ bx0' = x_0 /\ bx1' = x_1
    /\ bisection_called' = TRUE
    /\ x1_used' = TRUE
    /\ UNCHANGED <<args, newtonVars, bits, bcands, bisectOutcome, nfB, outcome>>

\* An exception the handler does not catch leaves solve.
SolvePropagate ==
    /\ pc = "newton_ret" /\ entry = "solve"
    /\ newtonOutcome.kind # "return" /\ ~Caught(newtonOutcome.kind)
    /\ outcome' = newtonOutcome
    /\ pc' = "done"
    /\ UNCHANGED <<args, newtonVars, bisectVars, bisection_called, x1_used>>

Next ==
    \/ CallNewton \/ NewtonDivZero \/ NewtonReturn \/ NewtonContinue
    \/ NewtonExhausted \/ NewtonLeave
    \/ CallBisection \/ BisectionInvalid \/ BisectionEnter \/ BisectionReturn
    \/ BisectionNarrowLeft \/ BisectionNarrowRight \/ BisectionExhausted
    \/ BisectionLeave
    \/ CallSolve \/ SolveReturnNewton \/ SolveFallback \/ SolvePropagate

Spec == Init /\ [][Next]_vars

\* ============================================================ claims
\* The tolerance test and the sign class, written out over the caller's f and eps.
MeetsTolerance(x) == RAbs(Apply(f, x)).n * eps.d < eps.n * RAbs(Apply(f, x)).d
Negative(x) == Apply(f, x).n < 0
AllMiss(cands) == \A i \in 1..Len(cands) : ~MeetsTolerance(cands[i])

\* C1: in solve, a fault of the Newton phase other than ConvergenceError (a
\* division by zero) is the outcome of solve itself; bisection is not invoked,
\* whatever the bracket.
C1_OnlyConvergenceErrorFallsBack ==
    (entry = "solve" /\ newtonOutcome.kind \notin {"none", "return", "ConvergenceError"})
        => /\ ~bisection_called
           /\ nfB = 0 /\ bits = 0 /\ bisectOutcome = NoOutcome
           /\ pc \in {"newton_ret", "done"}
           /\ (pc = "done" => outcome = newtonOutcome)

\* C1 witness: solve ended with the division fault of Newton's second iteration
\* although x_0, x_1 bracket a sign change.
C1_Witness ==
    /\ entry = "solve" /\ pc = "done"
    /\ outcome.kind = "ZeroDivisionError"
    /\ nits = 2
    /\ Negative(x_0) # Negative(x_1)

\* C2: when Newton succeeds inside solve, solve returns Newton's result,
\* bisection is never invoked, x_1 is never read and f is evaluated only by
\* the Newton phase.
C2_NewtonSuccessIsReturned ==
    (entry = "solve" /\ newtonOutcome.kind = "return")
        => /\ ~bisection_called /\ ~x1_used
           /\ nfB = 0 /\ bits = 0
           /\ pc \in {"newton_ret", "done"}
           /\ (pc = "done" => outcome = newtonOutcome /\ outcome.val = <<nx>>)

\* C2 witness: solve returned the iterate of Newton's second iteration.
C2_Witness ==
    /\ entry = "solve" /\ pc = "done"
    /\ newtonOutcome.kind = "return" /\ outcome.kind = "return"
    /\ nits = 2

\* C3: when the Newton phase of solve fails with ConvergenceError, the outcome
\* of solve is the outcome of bisection(f, x_0, x_1, eps, max_its_b) on the
\* caller's x_0 and x_1.
C3_FallbackIsBisectionOnCallerArgs ==
    (entry = "solve" /\ pc = "done" /\ newtonOutcome.kind = "ConvergenceError")
        => outcome = BisectionResult(f, x_0, x_1, eps, max_its_b)

\* C3 witness: the fallback returned a value although Newton's last iterate
\* is not x_0 and would not have bracketed a sign change with x_1.
C3_Witness ==
    /\ entry = "solve" /\ pc = "done"
    /\ newtonOutcome.kind = "ConvergenceError"
    /\ outcome.kind = "return"
    /\ nx # x_0
    /\ Negative(nx) = Negative(x_1)

\* C4: bisection raises ValueError exactly when (f(x_0) < 0) = (f(x_1) < 0),
\* zero counting as non-negative, and raises it at entry, before any midpoint.
C4_InvalidBracketAtEntryIff ==
    (bisection_called /\ pc # "bisection_entry")
        => /\ ((bisectOutcome.kind = "ValueError") <=> (Negative(x_0) = Negative(x_1)))
           /\ (bisectOutcome.kind = "ValueError")
                => /\ bits = 0 /\ bcands = <<>> /\ nfB = 2
                   /\ bisectOutcome.ends = <<x_0, x_1>>

\* C4 witness: ValueError with x_0 an exact root and f(x_1) positive.
C4_Witness ==
    /\ bisectOutcome.kind = "ValueError"
    /\ Apply(f, x_0).n = 0
    /\ Apply(f, x_1).n > 0

\* C5 as stated: with f(x_0) and f(x_1) in opposite sign classes, bisection
\* returns r with abs(f(r)) < eps, for every positive eps and max_its.
C5_AsStated ==
    (bisection_called /\ pc = "done" /\ Negative(x_0) # Negative(x_1))
        => /\ outcome.kind = "return"
           /\ MeetsTolerance(outcome.val[1])

\* C5 amended: with f(x_0) and f(x_1) in opposite sign classes, bisection
\* either returns r with abs(f(r)) < eps, or, none of its max_its midpoints
\* meeting the tolerance, raises ConvergenceError naming max_its; it never
\* raises ValueError.
C5_ReturnsOrExhausts ==
    (bisection_called /\ pc = "done" /\ Negative(x_0) # Negative(x_1))
        => \/ /\ outcome.kind = "return"
              /\ MeetsTolerance(outcome.val[1])
           \/ /\ outcome = ConvergenceError("bisection", max_its_b)
              /\ Len(bcands) = max_its_b
              /\ AllMiss(bcands)

\* C5 witness: a valid bracket whose third midpoint is returned.
C5_Witness ==
    /\ bisection_called /\ pc = "done"
    /\ Negative(x_0) # Negative(x_1)
    /\ outcome.kind = "return"
    /\ bits = 3

\* C6: every value a call returns meets abs(f(r)) < eps, and is the candidate
\* (Newton iterate after an update, or midpoint) tested last.
C6_ReturnedValueMeetsTolerance ==
    /\ (outcome.kind = "return")
        => /\ MeetsTolerance(outcome.val[1])
           /\ \/ ncands # <<>> /\ outcome.val[1] = ncands[Len(ncands)]
              \/ bcands # <<>> /\ outcome.val[1] = bcands[Len(bcands)]
    /\ (newtonOutcome.kind = "return")
        => /\ MeetsTolerance(newtonOutcome.val[1])
           /\ newtonOutcome.val[1] = ncands[Len(ncands)]
    /\ (bisectOutcome.kind = "return")
        => /\ MeetsTolerance(bisectOutcome.val[1])
           /\ bisectOutcome.val[1] = bcands[Len(bcands)]

\* C6 witness: solve returned the value its bisection fallback found for a
\* negative f(r).
C6_Witness ==
    /\ entry = "solve" /\ pc = "done"
    /\ outcome.kind = "return"
    /\ bisection_called
    /\ Negative(outcome.val[1])

\* C7: a leaf solver raises ConvergenceError exactly when its loop body ran
\* max_its times and no candidate met the tolerance; no loop runs more than
\* max_its iterations, and the error names max_its.
C7_ConvergenceErrorIffBudgetSpent ==
    /\ nits <= max_its_n /\ bits <= max_its_b
    /\ Len(ncands) <= nits /\ Len(bcands) <= bits
    /\ (newtonOutcome.kind = "ConvergenceError")
        => /\ nits = max_its_n /\ Len(ncands) = max_its_n
           /\ AllMiss(ncands)
           /\ newtonOutcome.attempts = max_its_n
    /\ (newtonOutcome.kind # "none" /\ Len(ncands) = max_its_n /\ AllMiss(ncands))
        => newtonOutcome.kind = "ConvergenceError"
    /\ (bisectOutcome.kind = "ConvergenceError")
        => /\ bits = max_its_b /\ Len(bcands) = max_its_b
           /\ AllMiss(bcands)
           /\ bisectOutcome.attempts = max_its_b
    /\ (bisectOutcome.kind # "none" /\ Len(bcands) = max_its_b /\ AllMiss(bcands))
        => bisectOutcome.kind = "ConvergenceError"

\* C7 witness: Newton with max_its = 1 failed after its one update, and the
\* bisection that followed spent its budget too.
C7_Witness ==
    /\ max_its_n = 1 /\ nits = 1
    /\ newtonOutcome.kind = "ConvergenceError"
    /\ bisectOutcome.kind = "ConvergenceError"
    /\ bits = max_its_b /\ bits > 1

\* C8 as stated: bisection evaluates f at most 2 * max_its times, and
\* newton_raphson evaluates f and df at most 2 * max_its times together.
C8_AsStated ==
    /\ nfB <= 2 * max_its_b
    /\ nfN + ndfN <= 2 * max_its_n

\* C8 amended: bisection evaluates f at most 2 + 3 * max_its times (two at
\* entry, three in an iteration that goes on), and newton_raphson evaluates
\* f and df at most 3 * max_its times together (f twice and df once in an
\* iteration).
C8_EvaluationBounds ==
    /\ nfB <= 2 + 3 * max_its_b
    /\ nfN + ndfN <= 3 * max_its_n
    /\ nfN <= 2 * max_its_n /\ ndfN <= max_its_n

\* C8 witness: both bounds met in one call of solve.
C8_Witness ==
    /\ entry = "solve" /\ pc = "done"
    /\ nfB = 2 + 3 * max_its_b
    /\ nfN + ndfN = 3 * max_its_n
    /\ max_its_n > 1 /\ max_its_b > 1

\* C9: whenever bisection's loop is at the start of an iteration, f(x_0) and
\* f(x_1) are in different sign classes; an iteration that goes on replaces
\* x_0 by the midpoint when the midpoint's sign class is that of f(x_0), else
\* x_1, and leaves the other end alone.
C9_BracketInvariant ==
    [][ /\ (pc' = "bisection_loop") => (Negative(bx0') # Negative(bx1'))
        /\ (pc = "bisection_loop" /\ pc' = "bisection_loop")
            => LET x_2 == Rat(bx0.n * bx1.d + bx1.n * bx0.d, 2 * bx0.d * bx1.d) IN
               IF Negative(x_2) = Negative(bx0)
               THEN bx0' = x_2 /\ bx1' = bx1
               ELSE bx1' = x_2 /\ bx0' = bx0 ]_vars

\* C9 witness: the loop is at the start of an iteration with both ends moved.
C9_Witness ==
    /\ pc = "bisection_loop"
    /\ bx0 # x_0 /\ bx1 # x_1
    /\ MoreIterations(bits, max_its_b)

\* C10: when df is zero at the iterate an iteration of newton_raphson starts
\* with, the call ends with the arithmetic fault, whether or not that iterate
\* already meets the tolerance.
C10_ZeroDerivativeFaults ==
    [][ /\ (pc = "newton" /\ nits < max_its_n /\ Apply(df, nx).n = 0)
            => /\ newtonOutcome'.kind = "ZeroDivisionError"
               /\ pc' = "newton_ret"
        /\ (entry = "newton_raphson" /\ pc' = "done"
                /\ newtonOutcome.kind = "ZeroDivisionError")
            => outcome'.kind = "ZeroDivisionError" ]_vars

\* C10 witness: newton_raphson ended with the fault at x_0, a root of f.
C10_Witness ==
    /\ entry = "newton_raphson" /\ pc = "done"
    /\ outcome.kind = "ZeroDivisionError"
    /\ nits = 1
    /\ MeetsTolerance(x_0)

====
